---------------------------- MODULE Spec2Model ----------------------------
(***************************************************************************)
(* yake: a task runner driven by a yaml definition of nested targets.      *)
(*                                                                         *)
(* The model covers src/src/yake.rs (the target tree, the flattening of    *)
(* the tree into the map of all targets, the resolution of dependencies,   *)
(* fabricate, has_target_name and execute) and the loader of               *)
(* src/src/yaml.rs.                                                        *)
(*                                                                         *)
(* Representation.                                                         *)
(*  - Option<T> is a sequence of length 0 (None) or 1 (Some(x)).           *)
(*  - A HashMap<String, YakeTarget> that the code ITERATES (Yake.targets,  *)
(*    YakeTarget.targets) is a sequence of <<name, target>> pairs with     *)
(*    pairwise distinct names: the map in its iteration order.  The order  *)
(*    of a HashMap is unspecified but fixed for a map that is not          *)
(*    modified, and clone() keeps it, so it is part of the value that was  *)
(*    deserialized; Init draws every order.                                *)
(*  - A HashMap that the code only looks up (all_targets, dependencies,    *)
(*    the maps built by get_all_targets/get_sub_targets) is a function     *)
(*    from its keys.  Vec<String> results of get_target_names, whose       *)
(*    order is the unspecified order of such a map, are sets.              *)
(*  - A YakeTarget is a record of doc, target_type, depends, targets and   *)
(*    exec.  The env fields and the Yake meta block are read by none of    *)
(*    the modelled functions and are left out.                             *)
(*  - Strings are TLA+ strings; format!("{}.{}", p, n) is p \o "." \o n.   *)
(*  - Command::output() is two steps, the start of the bash process and    *)
(*    its exit; the println! before it writes to stdout only and is left   *)
(*    out.  `invoked` and `failed_at` record what was handed to bash and   *)
(*    which command first exited non-zero; the code reads neither.         *)
(***************************************************************************)
EXTENDS Naturals, Sequences, FiniteSets, TLC

VARIABLES
    yake,          \* the deserialized Yake.targets (the tree)
    fabricated,    \* Yake.fabricated
    all_targets,   \* Yake.all_targets
    dependencies,  \* Yake.dependencies
    pc,            \* where the process is
    request,       \* execute's target_name
    run_list,      \* execute's `dependencies` followed by `target`
    ti,            \* index into run_list of the target being run
    ci,            \* index of the next command of run_list[ti].exec
    child,         \* whether a spawned bash process is being awaited
    invoked,       \* history: the command lines handed to bash, in order
    failed_at,     \* history: position in `invoked` of the first command
                   \* that exited non-zero, 0 when none did
    result         \* what the last call returned, or the panic message

vars == <<yake, fabricated, all_targets, dependencies, pc, request, run_list,
          ti, ci, child, invoked, failed_at, result>>

-----------------------------------------------------------------------------
(* Option<T> *)

None == <<>>

Some(x) == <<x>>

IsSome(o) == o # None

Unwrap(o) == o[1]

(* Option::unwrap_or *)
UnwrapOr(o, d) == IF o = None THEN d ELSE o[1]

-----------------------------------------------------------------------------
(* YakeTargetType *)

Group == "group"

Cmd == "cmd"

YakeTargetType == {Group, Cmd}

(* struct YakeTarget (with its YakeTargetMeta inlined) *)
YakeTarget(doc, type, depends, targets, exec) ==
    [doc |-> doc, target_type |-> type, depends |-> depends,
     targets |-> targets, exec |-> exec]

-----------------------------------------------------------------------------
(* HashMap as a function from its keys *)

EmptyMap == <<>>

(* HashMap::insert: a later insert under the same key replaces the value *)
MapInsert(m, k, v) ==
    [x \in (DOMAIN m) \cup {k} |-> IF x = k THEN v ELSE m[x]]

(* HashMap::extend: insert every entry of m2 *)
MapExtend(m, m2) ==
    [x \in (DOMAIN m) \cup (DOMAIN m2) |-> IF x \in DOMAIN m2 THEN m2[x] ELSE m[x]]

(* HashMap::get *)
MapGet(m, k) == IF k \in DOMAIN m THEN Some(m[k]) ELSE None

(* the keys of a map held in iteration order *)
KeysOf(seq) == {seq[i][1] : i \in 1..Len(seq)}

-----------------------------------------------------------------------------
(* Flattening *)

(* format!("{}.{}", x, target_name) *)
DotJoin(x, target_name) == x \o "." \o target_name

RECURSIVE get_sub_targets(_, _)
RECURSIVE SubTargetsLoop(_, _, _, _)

(* the for loop of get_sub_targets over the child map x, from entry i on,  *)
(* with `targets` the map built so far                                     *)
SubTargetsLoop(x, prefix, i, targets) ==
    IF i > Len(x) THEN targets
    ELSE LET target_name == x[i][1]
             target == x[i][2]
         IN IF target.target_type = Cmd
            THEN LET name == IF IsSome(prefix)
                             THEN DotJoin(Unwrap(prefix), target_name)
                             ELSE target_name
                 IN SubTargetsLoop(x, prefix, i + 1,
                                   MapInsert(targets, name, target))
            ELSE LET p == IF IsSome(prefix)
                          THEN Some(DotJoin(Unwrap(prefix), target_name))
                          ELSE None
                 IN SubTargetsLoop(x, prefix, i + 1,
                                   MapExtend(targets, get_sub_targets(target, p)))

(* YakeTarget::get_sub_targets *)
get_sub_targets(self, prefix) ==
    IF IsSome(self.targets)
    THEN SubTargetsLoop(Unwrap(self.targets), prefix, 1, EmptyMap)
    ELSE EmptyMap

RECURSIVE AllTargetsLoop(_, _, _)

(* the for loop of get_all_targets over the top-level map *)
AllTargetsLoop(tops, i, targets) ==
    IF i > Len(tops) THEN targets
    ELSE LET target_name == tops[i][1]
             target == tops[i][2]
             inserted == MapInsert(targets, target_name, target)
         IN AllTargetsLoop(tops, i + 1,
                IF IsSome(target.targets)
                THEN MapExtend(inserted, get_sub_targets(target, Some(target_name)))
                ELSE inserted)

(* Yake::get_all_targets, of the tree `tops` *)
get_all_targets(tops) == AllTargetsLoop(tops, 1, EmptyMap)

(* Yake::get_target_by_name: looks the name up in a fresh flattening *)
get_target_by_name(tops, target_name) == MapGet(get_all_targets(tops), target_name)

(* Yake::get_target_names, of the cached map *)
get_target_names(cached) == {k \in DOMAIN cached : cached[k].target_type = Cmd}


-----------------------------------------------------------------------------
(* Dependency resolution *)

(* target.meta.depends.unwrap_or(vec![]) *)
DependsOf(target) == UnwrapOr(target.depends, <<>>)

(* the lookups `self.get_target_by_name(dependency_name)` of one entry, in *)
(* declaration order                                                       *)
Lookups(tops, target) ==
    [i \in 1..Len(DependsOf(target)) |-> get_target_by_name(tops, DependsOf(target)[i])]

(* the entry's first dependency whose lookup is None, where `expect`       *)
(* panics; 0 when every lookup succeeds                                    *)
FirstUnknown(tops, target) ==
    LET bad == {i \in 1..Len(DependsOf(target)) : Lookups(tops, target)[i] = None}
    IN IF bad = {} THEN 0 ELSE CHOOSE i \in bad : \A j \in bad : i <= j

(* format!("Warning: Unknown dependency: {} in target: {}.", ..) as the    *)
(* pieces it is put together from                                          *)
UnknownDependencyMessage(dependency_name, target_name) ==
    <<"Warning: Unknown dependency: ", dependency_name, " in target: ", target_name, ".">>

(* faulty variant of DependencyPanics: only the command-type entries     *)
(* have their dependencies looked up                                     *)
DependencyPanicsOfCommands(tops) ==
    LET all == get_all_targets(tops)
    IN {UnknownDependencyMessage(DependsOf(all[t])[FirstUnknown(tops, all[t])], t) :
            t \in {k \in DOMAIN all : all[k].target_type = Cmd /\ FirstUnknown(tops, all[k]) # 0}}

(* The panics get_all_dependencies can end in.  The outer loop walks a     *)
(* freshly built HashMap, so any entry with an unknown dependency may be   *)
(* the one reached first; within an entry the first unknown name panics.   *)
DependencyPanics(tops) ==
    LET all == get_all_targets(tops)
    IN {UnknownDependencyMessage(DependsOf(all[t])[FirstUnknown(tops, all[t])], t) :
            t \in {k \in DOMAIN all : FirstUnknown(tops, all[k]) # 0}}

RECURSIVE Somes(_)

(* the values of a sequence of Options, in order *)
Somes(options) ==
    IF options = <<>> THEN <<>> ELSE options[1] \o Somes(Tail(options))

(* faulty variant of ResolvedDependencies: each target is pushed at the   *)
(* front, so the list is reversed                                        *)
ResolvedDependenciesReversed(tops, target) ==
    LET found == Somes(Lookups(tops, target))
    IN [i \in 1..Len(found) |-> found[Len(found) + 1 - i]]

(* one entry's dependency list: each looked-up target pushed in            *)
(* declaration order (past `expect` every lookup is Some)                  *)
ResolvedDependencies(tops, target) == Somes(Lookups(tops, target))

(* faulty variant of get_all_dependencies: an entry is made only for a   *)
(* target that declares dependencies                                     *)
get_all_dependencies_of_declaring(tops) ==
    LET all == get_all_targets(tops)
    IN [target_name \in {k \in DOMAIN all : IsSome(all[k].depends)} |->
            ResolvedDependencies(tops, all[target_name])]

(* Yake::get_all_dependencies, when it does not panic *)
get_all_dependencies(tops) ==
    LET all == get_all_targets(tops)
    IN [target_name \in DOMAIN all |-> ResolvedDependencies(tops, all[target_name])]

(* faulty variant of has_target_name: any key of the cached map is taken, *)
(* groups included                                                       *)
has_target_name_any_key(cached, target_name) ==
    IF target_name \in DOMAIN cached
    THEN [call |-> "has_target_name", kind |-> "Ok", names |-> {}, text |-> <<>>]
    ELSE [call |-> "has_target_name", kind |-> "Err",
          names |-> DOMAIN cached, text |-> <<>>]

(* Yake::has_target_name: Ok(()) or Err(the target names) *)
has_target_name(cached, target_name) ==
    IF target_name \in get_target_names(cached)
    THEN [call |-> "has_target_name", kind |-> "Ok", names |-> {}, text |-> <<>>]
    ELSE [call |-> "has_target_name", kind |-> "Err",
          names |-> get_target_names(cached), text |-> <<>>]

(* Yake::get_dependencies_by_name: self.dependencies.get(name), unwrapped  *)
(* by the caller                                                           *)
get_dependencies_by_name(deps, target_name) == MapGet(deps, target_name)


(* Yake::fabricate, when get_all_dependencies does not panic: the struct   *)
(* with its caches filled, or an unchanged clone when already fabricated   *)
fabricate(self) ==
    IF self.fabricated
    THEN self
    ELSE [targets |-> self.targets,
          all_targets |-> get_all_targets(self.targets),
          dependencies |-> get_all_dependencies(self.targets),
          fabricated |-> TRUE]

-----------------------------------------------------------------------------
(* execute's walk over the targets it runs *)

(* `commands` of run_target: the target's exec list, empty for None *)
CommandsOf(target) == UnwrapOr(target.exec, <<>>)

RECURSIVE NextPosition(_, _, _)

(* the next <<target index, command index>> at which a command is run,     *)
(* from position <<t, c>> on: targets whose exec is None or used up are    *)
(* passed over; the target index is Len(list) + 1 when nothing is left     *)
NextPosition(list, t, c) ==
    IF t > Len(list) THEN <<t, 1>>
    ELSE IF c <= Len(CommandsOf(list[t])) THEN <<t, c>>
    ELSE NextPosition(list, t + 1, 1)

(* faulty variant of RunList: the actual target before its dependencies *)
RunListTargetFirst(deps, target) == <<target>> \o deps

(* what execute runs: each dependency in turn, then the actual target *)
RunList(deps, target) == deps \o <<target>>

(* Ok("All cool".to_string()) *)
AllCool == [call |-> "execute", kind |-> "Ok", names |-> {}, text |-> <<"All cool">>]

(* Err(format!("Unknown target: {}", target_name)) *)
UnknownTarget(target_name) ==
    [call |-> "execute", kind |-> "Err", names |-> {},
     text |-> <<"Unknown target: ", target_name>>]

(* a panic, with its message *)
Panic(call, text) == [call |-> call, kind |-> "Panic", names |-> {}, text |-> text]

NoResult == [call |-> "none", kind |-> "None", names |-> {}, text |-> <<>>]

-----------------------------------------------------------------------------
(* The definitions the runs start from *)

\* Largest number of nodes of a generated target tree.
MaxNodes == 4

\* Largest number of commands of a target's exec list.
MaxExec == 2

\* Largest number of names of a target's depends list.
MaxDeps == 2

(* names given to the nodes of the generated trees; the dotted one lets a  *)
(* node's own name collide with the dotted path of another                 *)
NodeNames == {"a", "a.a"}

(* names the depends lists are drawn from *)
DepNames == {"a", "b", "a.b"}

(* a name no generated tree defines *)
UnknownName == "missing"

(* exit statuses of a spawned command: success and failure *)
ExitStatuses == {0, 1}

(* the path of a node, kept in its doc so that every node of a tree is a   *)
(* different value                                                         *)
PathOf(parent, name) == parent \o "/" \o name

(* k command lines, each naming the node that owns it and its position *)
CommandLines(doc, k) == [i \in 1..k |-> (doc \o "#") \o ToString(i)]

RECURSIVE Forests(_, _)
RECURSIVE Trees(_, _)

(* every target map of exactly n nodes in all, in every iteration order:   *)
(* nodes of either type, with or without children whatever the type; a     *)
(* cmd node has one command, a group node none; nothing depends on         *)
(* anything                                                                *)
Forests(n, parent) ==
    IF n = 0 THEN {<<>>}
    ELSE UNION {UNION {{<<<<name, node>>>> \o rest :
                            node \in Trees(k, PathOf(parent, name)),
                            rest \in {r \in Forests(n - k, parent) : name \notin KeysOf(r)}} :
                       k \in 1..n} :
                name \in NodeNames}

Trees(k, doc) ==
    {YakeTarget(doc, type, None, IF k = 1 THEN None ELSE Some(sub),
                IF type = Cmd THEN Some(CommandLines(doc, 1)) ELSE None) :
        type \in YakeTargetType, sub \in Forests(k - 1, doc)}

(* the trees that vary the shape, the names and the types *)
ShapeDefinitions == UNION {Forests(n, "") : n \in 1..MaxNodes}

RECURSIVE Arrangements(_, _)

(* the sequences of k different elements of S *)
Arrangements(S, k) ==
    IF k = 0 THEN {<<>>}
    ELSE UNION {{Append(s, x) : x \in S \ {s[i] : i \in 1..Len(s)}} :
                s \in Arrangements(S, k - 1)}

(* depends: absent, or up to MaxDeps different names *)
DependsLists == {None} \cup {Some(s) : s \in UNION {Arrangements(DepNames, k) : k \in 1..MaxDeps}}

(* exec: absent, or MaxExec commands *)
ExecLists(doc) == {None, Some(CommandLines(doc, MaxExec))}

(* a childless node of either type with any depends and any exec *)
RunNodes(doc) ==
    {YakeTarget(doc, type, depends, None, exec) :
        type \in YakeTargetType, depends \in DependsLists, exec \in ExecLists(doc)}

(* two top-level targets a and b, and a target a with one child b: the     *)
(* trees that vary what depends on what and what runs                      *)
RunDefinitions ==
    {<<<<"a", x>>, <<"b", y>>>> : x \in RunNodes("/a"), y \in RunNodes("/b")}
    \cup {<<<<"a", [x EXCEPT !.targets = Some(<<<<"b", y>>>>)]>>>> :
            x \in RunNodes("/a"), y \in RunNodes("/a/b")}

Definitions == ShapeDefinitions \cup RunDefinitions

RECURSIVE PathNames(_, _)

(* the dotted path of every node of a target map, whatever its type *)
PathNames(seq, prefix) ==
    UNION {LET name == IF IsSome(prefix) THEN DotJoin(Unwrap(prefix), seq[i][1])
                       ELSE seq[i][1]
           IN {name} \cup PathNames(UnwrapOr(seq[i][2].targets, <<>>), Some(name)) :
           i \in 1..Len(seq)}

(* the names a caller asks for: every node's dotted path and an unknown one *)
Requests == PathNames(yake, None) \cup {UnknownName}

-----------------------------------------------------------------------------
(* The state after serde_yaml::from_str: the tree, and the skipped fields  *)
(* at their defaults                                                       *)
InitFrom(definitions) ==
    /\ yake \in definitions
    /\ fabricated = FALSE
    /\ all_targets = EmptyMap
    /\ dependencies = EmptyMap
    /\ pc = "start"
    /\ request = ""
    /\ run_list = <<>>
    /\ ti = 1
    /\ ci = 1
    /\ child = "none"
    /\ invoked = <<>>
    /\ failed_at = 0
    /\ result = NoResult

Init == InitFrom(Definitions)

(* the Yake struct held in the variables *)
Self ==
    [targets |-> yake, all_targets |-> all_targets,
     dependencies |-> dependencies, fabricated |-> fabricated]

(* yake.fabricate(), as load_yml_from_file calls it: the caches are built, *)
(* or get_all_dependencies panics on an unknown dependency and the process *)
(* ends; fabricate on a fabricated struct returns it unchanged             *)
Fabricate ==
    /\ pc \in {"start", "loaded"}
    /\ IF ~fabricated /\ DependencyPanics(yake) # {}
       THEN /\ \E text \in DependencyPanics(yake) : result' = Panic("fabricate", text)
            /\ pc' = "aborted"
            /\ UNCHANGED <<fabricated, all_targets, dependencies>>
       ELSE /\ fabricated' = fabricate(Self).fabricated
            /\ all_targets' = fabricate(Self).all_targets
            /\ dependencies' = fabricate(Self).dependencies
            /\ pc' = "loaded"
            /\ UNCHANGED result
    /\ UNCHANGED <<yake, request, run_list, ti, ci, child, invoked, failed_at>>

(* yake.has_target_name(name) *)
HasTargetName ==
    /\ pc \in {"start", "loaded"}
    /\ \E name \in Requests :
          result' = has_target_name(all_targets, name)
    /\ UNCHANGED <<yake, fabricated, all_targets, dependencies, pc, request,
                   run_list, ti, ci, child, invoked, failed_at>>


(* yake.execute(name), up to its first command: the name is checked, the   *)
(* target and its dependency list are looked up (each unwrap panics on     *)
(* None), and run_target starts on the first dependency                    *)
Execute ==
    /\ pc \in {"start", "loaded"}
    /\ \E name \in Requests :
          LET target == get_target_by_name(yake, name)
              deps == get_dependencies_by_name(dependencies, name)
              list == RunList(Unwrap(deps), Unwrap(target))
              pos == NextPosition(list, 1, 1)
          IN /\ request' = name
             /\ IF has_target_name(all_targets, name).kind = "Err"
                THEN /\ pc' = "rejected"
                     /\ result' = UnknownTarget(name)
                     /\ UNCHANGED <<run_list, ti, ci>>
                ELSE IF target = None \/ deps = None
                THEN /\ pc' = "panicked"
                     /\ result' = Panic("execute", <<"called Option::unwrap() on a None value">>)
                     /\ UNCHANGED <<run_list, ti, ci>>
                ELSE /\ run_list' = list
                     /\ ti' = pos[1]
                     /\ ci' = pos[2]
                     /\ IF pos[1] > Len(list)
                        THEN pc' = "done" /\ result' = AllCool
                        ELSE pc' = "running" /\ UNCHANGED result
    /\ UNCHANGED <<yake, fabricated, all_targets, dependencies, child, invoked, failed_at>>

(* the command run_target is about to hand to bash *)
CurrentCommand == CommandsOf(run_list[ti])[ci]

(* Command::new("bash").arg("-c").arg(command)...output(), first half:     *)
(* the process is started, or it cannot be and `expect` panics             *)
Spawn ==
    /\ pc = "running"
    /\ child = "none"
    /\ invoked' = Append(invoked, CurrentCommand)
    /\ \E started \in BOOLEAN :
          IF started
          THEN /\ child' = "running"
               /\ UNCHANGED <<pc, result>>
          ELSE /\ pc' = "failed"
               /\ result' = Panic("execute", <<"failed to execute command ", CurrentCommand>>)
               /\ UNCHANGED child
    /\ UNCHANGED <<yake, fabricated, all_targets, dependencies, request,
                   run_list, ti, ci, failed_at>>

(* faulty variant of AfterExit: a command that exited non-zero is run    *)
(* again                                                                 *)
AfterExitRetrying(status) ==
    IF status # 0 THEN <<ti, ci>> ELSE NextPosition(run_list, ti, ci + 1)

(* where execute goes once the awaited command has exited with `status`:   *)
(* output() returned Ok, which is all that `expect` looks at               *)
AfterExit(status) == NextPosition(run_list, ti, ci + 1)

(* output(), second half: the process exits and run_target goes on to the  *)
(* next command, the next target, or the final Ok                          *)
Wait ==
    /\ pc = "running"
    /\ child = "running"
    /\ \E status \in ExitStatuses :
          /\ failed_at' = IF failed_at = 0 /\ status # 0 THEN Len(invoked) ELSE failed_at
          /\ ti' = AfterExit(status)[1]
          /\ ci' = AfterExit(status)[2]
          /\ IF AfterExit(status)[1] > Len(run_list)
             THEN pc' = "done" /\ result' = AllCool
             ELSE UNCHANGED <<pc, result>>
    /\ child' = "none"
    /\ UNCHANGED <<yake, fabricated, all_targets, dependencies, request,
                   run_list, invoked>>

Next == Fabricate \/ HasTargetName \/ Execute \/ Spawn \/ Wait

Spec == Init /\ [][Next]_vars

(* The runs in which a started process is awaited and the next command is  *)
(* started: execute is one sequential thread, and a spawned command is     *)
(* taken to exit.  The definitions are those that declare dependencies.    *)
FairSpec ==
    /\ InitFrom(RunDefinitions)
    /\ [][Next]_vars
    /\ WF_vars(Spawn)
    /\ WF_vars(Wait)


-----------------------------------------------------------------------------
(* What the properties speak of *)

RECURSIVE TreeNodes(_, _, _)

(* every node of a target map, with its dotted path (`key`) and the types  *)
(* of its proper ancestors from the top level down (`above`)               *)
TreeNodes(seq, prefix, above) ==
    UNION {LET key == IF IsSome(prefix) THEN DotJoin(Unwrap(prefix), seq[i][1])
                      ELSE seq[i][1]
               node == seq[i][2]
           IN {[key |-> key, node |-> node, above |-> above]}
              \cup TreeNodes(UnwrapOr(node.targets, <<>>), Some(key),
                             Append(above, node.target_type)) :
           i \in 1..Len(seq)}

(* the nodes of the deserialized tree *)
Nodes == TreeNodes(yake, None, <<>>)

(* all ancestors of the node are groups *)
UnderGroupsOnly(n) == \A i \in 1..Len(n.above) : n.above[i] = Group

(* list_target_names() *)
ListedNames == get_target_names(all_targets)

RECURSIVE Flat(_)

(* the concatenation of a sequence of sequences *)
Flat(seqs) == IF seqs = <<>> THEN <<>> ELSE seqs[1] \o Flat(Tail(seqs))

(* s is an initial part of t *)
IsPrefix(s, t) == Len(s) <= Len(t) /\ \A i \in 1..Len(s) : s[i] = t[i]

(* The commands of d1, then of d2, ..., then of the target itself, for the *)
(* registry entry of `name` and the entries its depends list names         *)
CommandsInOrder(name) ==
    LET declared == DependsOf(all_targets[name])
    IN Flat([i \in 1..Len(declared) |-> CommandsOf(all_targets[declared[i]])])
       \o CommandsOf(all_targets[name])

Executing == pc \in {"running", "done", "failed"}

Terminal == {"done", "rejected", "failed"}

-----------------------------------------------------------------------------
-----------------------------------------------------------------------------
(* C2: once a command of execute(t) has failed (it could not be started,   *)
(* or it exited non-zero), that command is the last one invoked and        *)
(* execute does not return Ok.                                             *)
C2_StopsAtFirstFailure ==
    /\ (failed_at # 0 => Len(invoked) = failed_at /\ pc # "done")
    /\ (pc = "failed" => result.kind = "Panic" /\ child = "none")

-----------------------------------------------------------------------------
(* the <<declaring entry, dependency name>> pairs of the flattening of the *)
(* tree whose dependency name is not a key of it                           *)
UnknownDependencies ==
    LET registry == get_all_targets(yake)
    IN UNION {{<<t, DependsOf(registry[t])[i]>> :
                  i \in {j \in 1..Len(DependsOf(registry[t])) :
                            DependsOf(registry[t])[j] \notin DOMAIN registry}} :
              t \in DOMAIN registry}

(* C3: when some entry of the flattened registry, of either type and       *)
(* whether or not it is ever requested, declares a dependency that is not  *)
(* a key of the registry, fabricate never completes: the process is where  *)
(* it started, or ended by the panic that names an unknown dependency and  *)
(* the entry declaring it, or execute rejected a name on the unfabricated  *)
(* definition; and no command is ever invoked.                             *)
C3_UnknownDependencyIsFatal ==
    UnknownDependencies # {} =>
        /\ pc \in {"start", "aborted", "rejected"}
        /\ ~fabricated
        /\ invoked = <<>>
        /\ (pc = "aborted" =>
                /\ result.kind = "Panic"
                /\ <<result.text[4], result.text[2]>> \in UnknownDependencies)

(* the load was ended by an unknown dependency declared by a top-level     *)
(* group, which no caller can request                                      *)
C3_Witness ==
    /\ pc = "aborted"
    /\ result.text[4] \in DOMAIN get_all_targets(yake)
    /\ get_all_targets(yake)[result.text[4]].target_type = Group

-----------------------------------------------------------------------------
(* C4: after loading, list_target_names() is the set of keys of the        *)
(* flattened registry whose entry is command-type; the dotted path of a    *)
(* group node (top-level or nested) is never listed, and every command     *)
(* node below groups only is listed under its dotted path.                 *)
C4_ListsCommandLeavesOnly ==
    fabricated =>
        /\ ListedNames = {k \in DOMAIN all_targets : all_targets[k].target_type = Cmd}
        /\ \A n \in Nodes : n.node.target_type = Group => n.key \notin ListedNames
        /\ \A n \in Nodes :
              (n.node.target_type = Cmd /\ n.above # <<>> /\ UnderGroupsOnly(n))
                  => n.key \in ListedNames

-----------------------------------------------------------------------------
(* C5: a command node below a top-level group g1 and then a group g2 is    *)
(* the flattened registry's entry under g1.g2.<name>, and is its entry     *)
(* under no other key.                                                     *)
C5_LeafUnderItsDottedKeyOnly ==
    fabricated =>
        \A n \in Nodes :
            (n.node.target_type = Cmd /\ n.above = <<Group, Group>>)
                => /\ n.key \in DOMAIN all_targets
                   /\ all_targets[n.key] = n.node
                   /\ \A k \in DOMAIN all_targets : all_targets[k] = n.node => k = n.key


-----------------------------------------------------------------------------
(* the names a returned value carries: those of an Err list, and the       *)
(* pieces of a message                                                     *)
Mentions(r) == r.names \cup {r.text[i] : i \in 1..Len(r.text)}

(* C6, as claimed: the failure execute returns for a name that is not      *)
(* listed carries every command-type name that is defined.                 *)
C6_RejectionListsEveryName ==
    pc = "rejected" =>
        /\ request \notin ListedNames
        /\ result.call = "execute" /\ result.kind = "Err"
        /\ ListedNames \subseteq Mentions(result)

(* C6, amended: execute runs a name exactly when it is listed; for a name  *)
(* that is not, it returns Err("Unknown target: <name>"), which carries    *)
(* the requested name and no other, and invokes nothing; the list of the   *)
(* defined command-type names is what has_target_name returns as its Err.  *)
C6_RejectionNamesTheRequestOnly ==
    /\ []((Executing \/ pc = "panicked") => request \in ListedNames)
    /\ [](pc = "rejected" =>
            /\ request \notin ListedNames
            /\ result = [call |-> "execute", kind |-> "Err", names |-> {},
                         text |-> <<"Unknown target: ", request>>]
            /\ invoked = <<>>)
    /\ [][(result' # result /\ result'.call = "has_target_name" /\ result'.kind = "Err") =>
            result'.names = {k \in DOMAIN all_targets : all_targets[k].target_type = Cmd}]_vars

(* execute rejected the name of a top-level group of a loaded definition   *)
(* that defines command targets                                            *)
C6_Witness ==
    /\ pc = "rejected"
    /\ fabricated
    /\ request \in DOMAIN all_targets
    /\ ListedNames # {}

-----------------------------------------------------------------------------
(* the dependency registry holds, for every key of the flattened registry, *)
(* the flattened-registry entries of the names its entry declares, in      *)
(* declaration order                                                       *)
DependenciesAreTheDeclaredEntries ==
    /\ DOMAIN dependencies = DOMAIN all_targets
    /\ \A k \in DOMAIN dependencies :
          LET declared == DependsOf(all_targets[k])
          IN /\ Len(dependencies[k]) = Len(declared)
             /\ \A i \in 1..Len(declared) :
                   /\ declared[i] \in DOMAIN all_targets
                   /\ dependencies[k][i] = all_targets[declared[i]]

(* C7, as claimed: after a successful load every element of every          *)
(* dependency list is a command-type target, and every list is the         *)
(* flattened-registry entries of the declared names in declaration order.  *)
C7_DependenciesAreCommands ==
    fabricated =>
        /\ DependenciesAreTheDeclaredEntries
        /\ \A k \in DOMAIN dependencies : \A i \in 1..Len(dependencies[k]) :
              dependencies[k][i].target_type = Cmd

(* C7, amended: after a successful load every list of the dependency       *)
(* registry is the flattened-registry entries of the declared names in     *)
(* declaration order; an element is a command-type target or a group, and  *)
(* a group only when the declared name is that of a top-level target.      *)
C7_DependenciesAreRegistryEntries ==
    fabricated =>
        /\ DependenciesAreTheDeclaredEntries
        /\ \A k \in DOMAIN dependencies : \A i \in 1..Len(dependencies[k]) :
              dependencies[k][i].target_type = Group
                  => DependsOf(all_targets[k])[i] \in KeysOf(yake)

(* a loaded definition with a list of two dependencies, the first a group  *)
(* and the second a command target                                         *)
C7_Witness ==
    /\ fabricated
    /\ \E k \in DOMAIN dependencies :
          /\ Len(dependencies[k]) = 2
          /\ dependencies[k][1].target_type = Group
          /\ dependencies[k][2].target_type = Cmd

-----------------------------------------------------------------------------
(* C8: every top-level node is a key of the flattened registry under its   *)
(* bare name, and every other key is the dotted path of a command-type     *)
(* node below group-type nodes only: no key is the path of a nested group  *)
(* alone, and none lies beneath a command-type node, top-level or nested.  *)
C8_KeysAreTopLevelOrLeavesUnderGroups ==
    fabricated =>
        /\ KeysOf(yake) \subseteq DOMAIN all_targets
        /\ \A k \in (DOMAIN all_targets) \ KeysOf(yake) :
              \E n \in Nodes :
                  /\ n.key = k
                  /\ n.node = all_targets[k]
                  /\ n.node.target_type = Cmd
                  /\ n.above # <<>>
                  /\ UnderGroupsOnly(n)


-----------------------------------------------------------------------------
(* C9: whatever the depends lists declare, cycles and self-dependencies    *)
(* included, resolving them ends (loaded or panicked), and with every      *)
(* spawned command exiting a running execute ends as done or failed, after *)
(* no more commands than those of the target's direct dependencies and     *)
(* its own; an ended execute (done, rejected, failed) stays as it ended    *)
(* and invokes nothing more.                                               *)
C9_TerminatesOnCycles ==
    /\ [](pc = "start" => ENABLED Fabricate)
    /\ [](Executing => Len(invoked) <= Len(CommandsInOrder(request)))
    /\ [][(pc \in Terminal) => (pc' = pc /\ invoked' = invoked)]_vars
    /\ (pc = "running") ~> (pc \in {"done", "failed"})

(* execute of a target ended Ok, having run commands of a dependency that  *)
(* in turn declares the target as its dependency                           *)
C9_Witness ==
    /\ pc = "done"
    /\ Len(invoked) >= 2
    /\ \E i \in 1..Len(DependsOf(all_targets[request])) :
          LET d == DependsOf(all_targets[request])[i]
          IN /\ d # request
             /\ CommandsOf(all_targets[d]) # <<>>
             /\ \E j \in 1..Len(DependsOf(all_targets[d])) :
                   DependsOf(all_targets[d])[j] = request

-----------------------------------------------------------------------------
(* C10: once fabricated, the dependency registry has the keys of the       *)
(* flattened registry, which is the flattening of the tree; execute never  *)
(* panics on a missing entry, and what it runs is the registry's list for  *)
(* the name followed by the registry's entry for it.  Unfabricated, the    *)
(* flattened registry is empty, no name is listed and nothing is run.      *)
C10_RegistriesCoverEveryName ==
    /\ pc # "panicked"
    /\ fabricated =>
          /\ DOMAIN dependencies = DOMAIN all_targets
          /\ all_targets = get_all_targets(yake)
    /\ Executing =>
          /\ fabricated
          /\ request \in DOMAIN all_targets
          /\ request \in DOMAIN dependencies
          /\ run_list = dependencies[request] \o <<all_targets[request]>>
    /\ ~fabricated =>
          /\ all_targets = EmptyMap
          /\ ListedNames = {}
          /\ invoked = <<>>
          /\ pc \in {"start", "aborted", "rejected"}

(* execute of a target that declares no dependencies ended Ok with its     *)
(* commands run                                                            *)
C10_Witness ==
    /\ pc = "done"
    /\ all_targets[request].depends = None
    /\ invoked # <<>>


-----------------------------------------------------------------------------
(* What remains of C4 and C5 for the trees the flattening does not clash   *)
(* on: no two nodes of the tree have the same dotted path.                 *)
NoTwoNodesShareAPath ==
    \A m, n \in Nodes : m.key = n.key => m = n

(* with no shared path, no group's path is listed, every command node      *)
(* below groups only is listed, and a command node below two groups is the *)
(* registry's entry under its dotted path and under no other key           *)
FlatteningWithoutSharedPaths ==
    (fabricated /\ NoTwoNodesShareAPath) =>
        /\ \A n \in Nodes : n.node.target_type = Group => n.key \notin ListedNames
        /\ \A n \in Nodes :
              (n.node.target_type = Cmd /\ n.above # <<>> /\ UnderGroupsOnly(n))
                  => /\ n.key \in ListedNames
                     /\ all_targets[n.key] = n.node
                     /\ \A k \in DOMAIN all_targets : all_targets[k] = n.node => k = n.key

=============================================================================
